---- MODULE Spec2Model ----
(***************************************************************************)
(* Authentication / session core of the habit tracker API:                 *)
(* register, verifyEmail, login, refresh and logout (auth controller),     *)
(* the JWT helpers, the verification-token helpers, CustomError and the    *)
(* boundary errorHandler.                                                  *)
(*                                                                         *)
(* Every handler is an async function; the code between two awaits runs    *)
(* atomically on the Node event loop, and every await on the database or   *)
(* the mailer is a point where another request (or the clock) may move.    *)
(* Each handler is therefore one action per segment between its awaits.    *)
(* The clock "now" counts the seconds jose stamps into iat/exp.            *)
(***************************************************************************)
EXTENDS Integers, FiniteSets, Sequences, TLC

VARIABLES
    users,      \* the users collection: email -> record (NoUser: no record)
    now,        \* the clock, in seconds
    rawCount,   \* verification tokens drawn so far
    sent,       \* email -> raw verification token delivered to that address
    req,        \* slot -> the request in it: operation, inputs, position, locals
    res,        \* slot -> the response to it
    kept,       \* history: one refresh token a client kept a copy of when a
                \*          Set-Cookie handed it out, and what happened to it since
    ended,      \* history: one refresh token whose session was ended while it
                \*          was the stored one, until its user's next login
    env,        \* the process and its configuration: stage ("loading", "up" or
                \*          "exit") and the two token secrets of process.env
    db          \* config/db.ts: isConnected, the exit code of the process, the
                \*          handlers registered, and slot -> the connectDB call in it

vars == <<users, now, rawCount, sent, req, res, kept, ended, env, db>>

----------------------------------------------------------------------------
(* Bounds of the model *)

\* last second of the clock
MaxTime == 2
\* verification tokens generateSecureToken may draw
MaxRaw == 2
\* refresh-token lifetime ("7d"), access-token lifetime ("15m") and
\* verification-token lifetime (1 hour), in clock steps
RefreshTTL == 2
AccessTTL == 1
VerifyTTL == 1

Emails == {"ann@x.com", "bob@x.com"}
RegisterPasswords == {"secret1"}
LoginPasswords == {"secret1", "wrong"}

\* request slots: Procs may overlap, SeqProcs runs one request at a time
Procs == {"p1", "p2"}
SeqProcs == {"p1"}

----------------------------------------------------------------------------
(* Configuration *)

\* values of ACCESS_TOKEN_SECRET / REFRESH_TOKEN_SECRET: two different
\* secrets of 32 characters and one of 31
Secrets == {"a", "b", "short"}
SecretLength(secret) == IF secret = "short" THEN 31 ELSE 32

\* envSchema.parse(process.env), as far as the two secrets go: each is a
\* string of at least 32 characters
envSchema(config) ==
    /\ SecretLength(config.ACCESS_TOKEN_SECRET) >= 32
    /\ SecretLength(config.REFRESH_TOKEN_SECRET) >= 32

\* the process once env.ts has accepted these secrets
Up(access, refresh) ==
    [stage |-> "up", ACCESS_TOKEN_SECRET |-> access, REFRESH_TOKEN_SECRET |-> refresh]

----------------------------------------------------------------------------
(* Database connection *)

\* connectWithRetry = async (retries = 5, delay = 3000): the delay in seconds
Retries == 5
DelaySeconds == 3
\* attempts one call may make in the model
MaxAttempts == 8

\* a connectDB call: position, the retries argument of the connectWithRetry
\* invocation it is in, the mongoose.connect calls it has made, the seconds
\* it has slept, and whether isConnected was set when it was called
NoCall == [pc |-> "idle", retries |-> Retries, attempts |-> 0, slept |-> 0,
           late |-> FALSE]

\* let isConnected = false; no handler registered; the process running
\* (exitCode -1: it has not exited)
NotConnected ==
    [isConnected |-> FALSE, exitCode |-> -1, listeners |-> 0, sigint |-> 0,
     call |-> [p \in Procs |-> NoCall]]

----------------------------------------------------------------------------
(* Values *)

\* user.verificationToken = null / user.verificationTokenExpires = null
NullHash == 0
NullDate == 0

\* payload = {id, email, username, role}: all fixed per user
Payload(u) == [id |-> u, email |-> u]

\* a compact JWS: the key it is signed with (kind), the registered claims
\* sub, iat and exp, and the claims of the payload it was made from
Jwt(kind, sub, iat, exp) ==
    [kind |-> kind, sub |-> sub, iat |-> iat, exp |-> exp, claims |-> Payload("")]

\* user.refreshToken = null
NullToken == Jwt("null", "", 0, 0)
\* req.cookies.refreshToken undefined
NoCookie == Jwt("absent", "", 0, 0)
\* a cookie value that is no JWS at all
Garbage == Jwt("garbage", "", 0, 0)
\* res.clearCookie("refreshToken", {maxAge: 0})
ClearedCookie == Jwt("cleared", "", 0, 0)

\* bcrypt.hash / bcrypt.compare (the salt is not modelled)
hashPassword(password) == <<"bcrypt", password>>
comparePasswords(password, hash) == hash = <<"bcrypt", password>>

\* crypto.createHash("sha256").update(data).digest("hex"): injective, without
\* fixed points, never a value randomBytes draws, and the digest of a digest
\* is a third value
sha256hex(data) == 10 * data + 7

\* a digest in another encoding of the same hash
hashTokenBase64(token) == sha256hex(token) + 1

hashToken(token) == sha256hex(token)

\* a pair whose second component is the raw token again
generateSecureTokenPlain(n) == [rawToken |-> n + 1, hashedToken |-> n + 1]

\* crypto.randomBytes(32): the n-th draw (draws never collide)
generateSecureToken(n) == [rawToken |-> n + 1, hashedToken |-> sha256hex(n + 1)]

\* accessSecretKey / refreshSecretKey: the secret a token of this process
\* was signed with, by the signer (kind) that made it
SecretOf(token) ==
    IF token.kind = "access" THEN env.ACCESS_TOKEN_SECRET ELSE env.REFRESH_TOKEN_SECRET

\* SignJWT(payload).setSubject(payload.id).setIssuedAt().setExpirationTime(ttl):
\* HS256 over header and payload, so the token is a function of the payload
\* and of the second it is issued in
signAccessToken(payload, t) ==
    [Jwt("access", payload.id, t, t + AccessTTL) EXCEPT !.claims = payload]
signRefreshToken(payload, t) ==
    [Jwt("refresh", payload.id, t, t + RefreshTTL) EXCEPT !.claims = payload]

\* const { payload } = await jwtVerify(...): what a verified token decodes to
payloadOf(token) ==
    [sub |-> token.sub, iat |-> token.iat, exp |-> token.exp,
     id |-> token.claims.id, email |-> token.claims.email]

\* a verification that does not look at exp
verifyAccessTokenNoExpiry(token, t) ==
    IF token.kind \notin {"access", "refresh"} THEN "JWSInvalid"
    ELSE IF SecretOf(token) # env.ACCESS_TOKEN_SECRET THEN "JWSSignatureVerificationFailed"
    ELSE "ok"

\* a verification that does not check the signature
verifyAccessTokenAnyKey(token, t) ==
    IF token.kind \notin {"access", "refresh"} THEN "JWSInvalid"
    ELSE IF token.exp <= t THEN "JWTExpired"
    ELSE "ok"

\* jwtVerify(token, accessSecretKey): the compact form first, then the
\* signature, then exp (expired from the second exp on)
verifyAccessToken(token, t) ==
    IF token.kind \notin {"access", "refresh"} THEN "JWSInvalid"
    ELSE IF SecretOf(token) # env.ACCESS_TOKEN_SECRET THEN "JWSSignatureVerificationFailed"
    ELSE IF token.exp <= t THEN "JWTExpired"
    ELSE "ok"

\* jwtVerify(token, refreshSecretKey): the signature first, then exp
verifyRefreshToken(token, t) ==
    IF token.kind \notin {"access", "refresh"} THEN "JWSInvalid"
    ELSE IF SecretOf(token) # env.REFRESH_TOKEN_SECRET THEN "JWSSignatureVerificationFailed"
    ELSE IF token.exp <= t THEN "JWTExpired"
    ELSE "ok"

NoUser == [exists |-> FALSE, password |-> <<>>, isVerified |-> FALSE,
           verificationToken |-> NullHash, verificationTokenExpires |-> NullDate,
           refreshToken |-> NullToken]

----------------------------------------------------------------------------
(* Errors and responses *)

CustomError(message, statusCode) ==
    [custom |-> TRUE, isError |-> TRUE, statusCode |-> statusCode, message |-> message]
BadRequest(msg) == CustomError(msg, 400)
Unauthorized(msg) == CustomError(msg, 401)
Forbidden(msg) == CustomError(msg, 403)
Internal(msg) == CustomError(msg, 500)
\* an Error that is no CustomError (jose, mongoose, resend)
OtherError(msg) == [custom |-> FALSE, isError |-> TRUE, statusCode |-> 0, message |-> msg]
\* a thrown value that is no Error at all (the error object resend returns)
ThrownObject(msg) == [custom |-> FALSE, isError |-> FALSE, statusCode |-> 0, message |-> msg]

\* body: the keys of the JSON body; user: the keys of its "user" object
NoResponse == [status |-> 0, success |-> FALSE, message |-> "", cookie |-> NoCookie,
               accessToken |-> NullToken, logged |-> FALSE, body |-> {}, user |-> {}]

\* errorHandler: a CustomError keeps its status and message, any other Error
\* is answered 500 with its message, any other value 500 with the default
\* message; what is no CustomError is logged
errorHandler(err) ==
    [status |-> IF err.custom THEN err.statusCode ELSE 500,
     success |-> FALSE,
     message |-> IF err.isError THEN err.message ELSE "Internal Server Error",
     cookie |-> NoCookie,
     accessToken |-> NullToken, logged |-> ~err.custom,
     body |-> {"success", "message"}, user |-> {}]

\* validateBody / validateQuery on a ZodError:
\* res.status(400).json({status: "error", message, errors})
ValidationError(message) ==
    [status |-> 400, success |-> FALSE, message |-> message, cookie |-> NoCookie,
     accessToken |-> NullToken, logged |-> FALSE,
     body |-> {"status", "message", "errors"}, user |-> {}]

Ok(status, message, cookie, accessToken) ==
    [status |-> status, success |-> TRUE, message |-> message, cookie |-> cookie,
     accessToken |-> accessToken, logged |-> FALSE,
     body |-> {"success", "message"}
                \cup (IF accessToken = NullToken THEN {} ELSE {"accessToken"}),
     user |-> {}]

\* a success body that carries the stored document as it is
WithUserDocument(response) ==
    [response EXCEPT !.body = @ \cup {"user"},
                     !.user = {"id", "name", "email", "role", "username", "password",
                               "verificationToken", "verificationTokenExpires",
                               "isVerified"}]

\* user: {id: user._id, name: user.name, email: user.email, role: user.role}
WithUser(response) ==
    [response EXCEPT !.body = @ \cup {"user"}, !.user = {"id", "name", "email", "role"}]

----------------------------------------------------------------------------
(* Requests *)

\* op, pc: the handler and its position; email, password, raw, cookie: the
\* inputs; t: the clock the handler read for its check; doc: refreshToken of
\* the document it loaded; until: verificationTokenExpires of the document it
\* loaded; rt, at: the tokens it signed.
\* bearer: the token of the Authorization header; passed, user: protect
\* called next() and the req.user it attached.
\* rejected: validateBody / validateQuery answered, the handler never ran.
\* About the request: replay: its input was answered 200 before; old, dead:
\* the history of its cookie when it arrived; overlap: another request was
\* in flight during it
Idle == [op |-> "none", pc |-> "idle", email |-> "", password |-> "", raw |-> 0,
         cookie |-> NoCookie, t |-> 0, doc |-> NullToken, until |-> NullDate,
         rt |-> NullToken, at |-> NullToken,
         bearer |-> NoCookie, passed |-> FALSE, user |-> Payload(""),
         rejected |-> FALSE,
         replay |-> FALSE, old |-> FALSE, dead |-> "no", overlap |-> FALSE]

Free(p) == req[p].pc \in {"idle", "done"}
InFlight(p) == ~Free(p)

\* a request arrives in slot p of a process that is up; the slots in flight
\* at that moment overlap it
Arrive(p, r) ==
    /\ env.stage = "up"
    /\ Free(p)
    /\ req' = [q \in Procs |->
                 IF q = p THEN [r EXCEPT !.overlap = \E o \in Procs \ {p} : InFlight(o)]
                 ELSE IF InFlight(q) THEN [req[q] EXCEPT !.overlap = TRUE]
                 ELSE req[q]]
    /\ res' = [res EXCEPT ![p] = NoResponse]

\* a request arrives in slot p and the validation middleware of its route
\* answers it: the handler is not called
Reject(p, op, message) ==
    /\ env.stage = "up"
    /\ Free(p)
    /\ req' = [req EXCEPT ![p] = [Idle EXCEPT !.op = op, !.pc = "done", !.rejected = TRUE]]
    /\ res' = [res EXCEPT ![p] = ValidationError(message)]

\* what a client can put in the email field: an address, an address in
\* another case, a string that is no address
EmailInputs == Emails \cup {"Ann@x.com", "not-an-email"}

\* z.email(...)
IsEmail(s) == s # "not-an-email"

\* .transform((s) => s.toLowerCase().trim())
toLowerCase(s) == IF s = "Ann@x.com" THEN "ann@x.com" ELSE s

PasswordLength(password) == IF password = "secret1" THEN 7 ELSE 5

\* registerSchema / loginSchema, as far as email and password go
registerSchema(body) == IsEmail(body.email) /\ PasswordLength(body.password) >= 6
loginSchema(body) == IsEmail(body.email) /\ PasswordLength(body.password) >= 1

\* a query schema that accepts every query
verifyEmailQuerySchemaAny(query) == TRUE

\* verifyEmailQuerySchema: token is a string of at least one character
verifyEmailQuerySchema(query) == query.token # 0

\* the handler in slot p answers
Respond(p, response) ==
    /\ req' = [req EXCEPT ![p].pc = "done"]
    /\ res' = [res EXCEPT ![p] = response]

Goto(p, pc) ==
    /\ req' = [req EXCEPT ![p].pc = pc]
    /\ UNCHANGED res

\* The copied token: "from" is the call that issued it (login or refresh),
\* "rotated" a refresh presenting it was answered 200, "displaced" it came
\* from a login and a later login of its user succeeded
NothingKept == [token |-> NullToken, from |-> "none", rotated |-> FALSE,
                displaced |-> FALSE]

\* a Set-Cookie hands out token: the client may copy it
Keep(token, from) ==
    \/ kept' = [token |-> token, from |-> from, rotated |-> FALSE, displaced |-> FALSE]
    \/ kept' = kept

\* The ended token: "by" is what ended its session, a "logout" presenting it
\* or a refresh "mismatch" while it was stored
NothingEnded == [token |-> NullToken, by |-> "no"]

\* the stored token is cleared: it may become the one that is followed
Mark(token, by) ==
    \/ ended' = [token |-> token, by |-> by]
    \/ ended' = ended

\* User.findOne({email})
FindByEmail(email) == users[email]

----------------------------------------------------------------------------
Init ==
    /\ users = [e \in Emails |-> NoUser]
    /\ now = 0
    /\ rawCount = 0
    /\ sent = [e \in Emails |-> 0]
    /\ req = [p \in Procs |-> Idle]
    /\ res = [p \in Procs |-> NoResponse]
    /\ kept = NothingKept
    /\ ended = NothingEnded
    /\ env = Up("a", "b")
    /\ db = NotConnected

\* a second passes
Tick ==
    /\ now < MaxTime
    /\ now' = now + 1
    /\ UNCHANGED <<users, rawCount, sent, req, res, kept, ended, env, db>>

----------------------------------------------------------------------------
(* register *)

\* validateBody(registerSchema), then register with the parsed body
StartRegister(p) ==
    \E email \in EmailInputs, password \in RegisterPasswords :
        /\ IF registerSchema([email |-> email, password |-> password])
           THEN Arrive(p, [Idle EXCEPT !.op = "register", !.pc = "reg_find",
                                       !.email = toLowerCase(email),
                                       !.password = password])
           ELSE Reject(p, "register", "Invalid request body")
        /\ UNCHANGED <<users, now, rawCount, sent, kept, ended, env, db>>

\* a register that goes on to User.create without looking at "existing"
RegisterFindNoCheck(p) ==
    /\ req[p].pc = "reg_find"
    /\ Goto(p, "reg_create")
    /\ UNCHANGED <<users, now, rawCount, sent, kept, ended, env, db>>

\* const existing = await User.findOne({ email })
RegisterFind(p) ==
    /\ req[p].pc = "reg_find"
    /\ IF FindByEmail(req[p].email).exists
       THEN Respond(p, errorHandler(BadRequest("Email already registered")))
       ELSE Goto(p, "reg_create")
    /\ UNCHANGED <<users, now, rawCount, sent, kept, ended, env, db>>

\* a record that is created verified
NewUserVerified(hashedPassword, hashedToken, t) ==
    [exists |-> TRUE, password |-> hashedPassword, isVerified |-> TRUE,
     verificationToken |-> hashedToken, verificationTokenExpires |-> t + VerifyTTL,
     refreshToken |-> NullToken]

\* the document of User.create({..., password: hashedPassword,
\* verificationToken: hashedToken,
\* verificationTokenExpires: new Date(Date.now() + 60 * 60 * 1000),
\* isVerified: false}) at second t; refreshToken is not set
NewUser(hashedPassword, hashedToken, t) ==
    [exists |-> TRUE, password |-> hashedPassword, isVerified |-> FALSE,
     verificationToken |-> hashedToken, verificationTokenExpires |-> t + VerifyTTL,
     refreshToken |-> NullToken]

\* hashPassword, generateSecureToken, await User.create({...}); the unique
\* index on email rejects a second record (E11000, no CustomError)
RegisterCreate(p) ==
    /\ req[p].pc = "reg_create"
    /\ rawCount < MaxRaw
    /\ LET pair == generateSecureToken(rawCount)
           email == req[p].email
       IN  /\ rawCount' = rawCount + 1
           /\ IF users[email].exists
              THEN /\ Respond(p, errorHandler(OtherError("E11000 duplicate key error")))
                   /\ UNCHANGED users
              ELSE /\ users' = [users EXCEPT ![email] =
                          NewUser(hashPassword(req[p].password), pair.hashedToken, now)]
                   /\ req' = [req EXCEPT ![p].pc = "reg_send", ![p].raw = pair.rawToken]
                   /\ UNCHANGED res
    /\ UNCHANGED <<now, sent, kept, ended, env, db>>

\* sendEmail: "sent" when resend accepted the message; otherwise it rethrows
\* what failed: render or the transport threw an Error, or resend returned
\* an error object
SendOutcomes == {"sent", "threw", "rejected"}

sendEmail(outcome) ==
    IF outcome = "threw" THEN OtherError("fetch failed")
    ELSE ThrownObject("validation_error")

\* what register does with the result of the dispatch: the error reaches
\* catch and next(error)
RegisterAfterSend(outcome) ==
    IF outcome = "sent"
    THEN WithUser(Ok(201, "User registered successfully. Please verify your email.",
                     NoCookie, NullToken))
    ELSE errorHandler(sendEmail(outcome))

\* await sendVerificationEmail(email, verificationUrl); res.status(201)
RegisterSend(p) ==
    /\ req[p].pc = "reg_send"
    /\ \E outcome \in SendOutcomes :
          /\ sent' = IF outcome = "sent"
                     THEN [sent EXCEPT ![req[p].email] = req[p].raw]
                     ELSE sent
          /\ Respond(p, RegisterAfterSend(outcome))
    /\ UNCHANGED <<users, now, rawCount, kept, ended, env, db>>

----------------------------------------------------------------------------
(* verifyEmail *)

\* what a client can put in ?token=: nothing, a raw token it was mailed, a
\* hash as the store holds it, or a string nobody generated
VerifyInputs ==
    {0} \cup {sent[e] : e \in Emails}
        \cup {users[e].verificationToken : e \in Emails}
        \cup {generateSecureToken(MaxRaw).rawToken}

\* the request before this one in the slot was a verifyEmail of the same
\* token and was answered 200
VerifiedJustBefore(p, token) ==
    /\ req[p].op = "verifyEmail" /\ req[p].pc = "done"
    /\ req[p].raw = token /\ res[p].status = 200

\* validateQuery(verifyEmailQuerySchema), then verifyEmail
StartVerifyEmail(p) ==
    \E token \in VerifyInputs :
        /\ IF verifyEmailQuerySchema([token |-> token])
           THEN Arrive(p, [Idle EXCEPT !.op = "verifyEmail", !.pc = "ver_find",
                                       !.raw = token,
                                       !.replay = VerifiedJustBefore(p, token),
                                       !.until = IF VerifiedJustBefore(p, token)
                                                 THEN req[p].until ELSE NullDate])
           ELSE Reject(p, "verifyEmail", "Invalid query parameters")
        /\ UNCHANGED <<users, now, rawCount, sent, kept, ended, env, db>>

\* a lookup by the hash alone
FindByVerificationTokenNoExpiry(hashedToken, t) ==
    {e \in Emails : users[e].exists /\ users[e].verificationToken = hashedToken}

\* User.findOne({verificationToken: hashedToken,
\*               verificationTokenExpires: {$gt: new Date()}})
FindByVerificationToken(hashedToken, t) ==
    {e \in Emails : /\ users[e].exists
                    /\ users[e].verificationToken = hashedToken
                    /\ users[e].verificationTokenExpires > t}

VerifyFind(p) ==
    /\ req[p].pc = "ver_find"
    /\ LET found == FindByVerificationToken(hashToken(req[p].raw), now)
       IN  IF req[p].raw = 0
           THEN Respond(p, errorHandler(BadRequest("Verification token missing")))
           ELSE IF found = {}
           THEN /\ req' = [req EXCEPT ![p].pc = "done", ![p].t = now]
                /\ res' = [res EXCEPT ![p] = errorHandler(
                              BadRequest("Invalid or expired verification token"))]
           ELSE LET email == CHOOSE e \in found : TRUE
                IN  IF users[email].isVerified
                    THEN /\ req' = [req EXCEPT ![p].pc = "done", ![p].t = now]
                         /\ res' = [res EXCEPT ![p] =
                                      Ok(200, "Email already verified. You can log in.",
                                         NoCookie, NullToken)]
                    ELSE /\ req' = [req EXCEPT
                                      ![p].pc = "ver_save", ![p].email = email, ![p].t = now,
                                      ![p].until = users[email].verificationTokenExpires]
                         /\ UNCHANGED res
    /\ UNCHANGED <<users, now, rawCount, sent, kept, ended, env, db>>

\* a verification that clears the stored token and leaves its expiry
MarkVerifiedKeepExpiry(user) ==
    [user EXCEPT !.isVerified = TRUE, !.verificationToken = NullHash]

\* a verification that leaves the stored token and its expiry in place
MarkVerifiedKeepToken(user) == [user EXCEPT !.isVerified = TRUE]

\* user.isVerified = true; user.verificationToken = null;
\* user.verificationTokenExpires = null: the paths save() writes
MarkVerified(user) ==
    [user EXCEPT !.isVerified = TRUE, !.verificationToken = NullHash,
                 !.verificationTokenExpires = NullDate]

\* await user.save({validateBeforeSave: false}); res.status(200)
VerifySave(p) ==
    /\ req[p].pc = "ver_save"
    /\ users' = [users EXCEPT ![req[p].email] = MarkVerified(users[req[p].email])]
    /\ Respond(p, Ok(200, "Email verified successfully. You can now log in.",
                     NoCookie, NullToken))
    /\ UNCHANGED <<now, rawCount, sent, kept, ended, env, db>>

----------------------------------------------------------------------------
(* login *)

\* validateBody(loginSchema), then login with the parsed body
StartLogin(p) ==
    \E email \in EmailInputs, password \in LoginPasswords :
        /\ IF loginSchema([email |-> email, password |-> password])
           THEN Arrive(p, [Idle EXCEPT !.op = "login", !.pc = "login_find",
                                       !.email = toLowerCase(email),
                                       !.password = password])
           ELSE Reject(p, "login", "Invalid request body")
        /\ UNCHANGED <<users, now, rawCount, sent, kept, ended, env, db>>

\* LoginCheck without the isVerified test
LoginCheckNoVerified(user, password) ==
    IF ~user.exists THEN BadRequest("Invalid credentials")
    ELSE IF ~comparePasswords(password, user.password)
    THEN BadRequest("Invalid credentials")
    ELSE OtherError("")

\* LoginCheck with an answer of its own for a wrong password
LoginCheckWrongPassword(user, password) ==
    IF ~user.exists THEN BadRequest("Invalid credentials")
    ELSE IF ~user.isVerified
    THEN Forbidden("Please verify your email before logging in")
    ELSE IF ~comparePasswords(password, user.password)
    THEN Unauthorized("Incorrect password")
    ELSE OtherError("")

\* the checks of login on the record findOne returned, in the code's order:
\* no record, not verified, password mismatch
LoginCheck(user, password) ==
    IF ~user.exists THEN BadRequest("Invalid credentials")
    ELSE IF ~user.isVerified
    THEN Forbidden("Please verify your email before logging in")
    ELSE IF ~comparePasswords(password, user.password)
    THEN BadRequest("Invalid credentials")
    ELSE OtherError("")

LoginPasses(user, password) == ~LoginCheck(user, password).custom

\* a login that ends the session of the account when it refuses the call
LoginFindEndsSession(p) ==
    /\ req[p].pc = "login_find"
    /\ LET user == FindByEmail(req[p].email)
       IN  IF LoginPasses(user, req[p].password)
           THEN Goto(p, "login_sign") /\ UNCHANGED users
           ELSE /\ Respond(p, errorHandler(LoginCheck(user, req[p].password)))
                /\ users' = [users EXCEPT ![req[p].email].refreshToken = NullToken]
    /\ UNCHANGED <<now, rawCount, sent, kept, ended, env, db>>

\* const user = await User.findOne({ email }); ... comparePasswords
LoginFind(p) ==
    /\ req[p].pc = "login_find"
    /\ LET user == FindByEmail(req[p].email)
       IN  IF LoginPasses(user, req[p].password)
           THEN Goto(p, "login_sign")
           ELSE Respond(p, errorHandler(LoginCheck(user, req[p].password)))
    /\ UNCHANGED <<users, now, rawCount, sent, kept, ended, env, db>>

\* await signAccessToken(payload); await signRefreshToken(payload)
LoginSign(p) ==
    /\ req[p].pc = "login_sign"
    /\ req' = [req EXCEPT ![p].pc = "login_save",
                          ![p].at = signAccessToken(Payload(req[p].email), now),
                          ![p].rt = signRefreshToken(Payload(req[p].email), now)]
    /\ UNCHANGED <<users, now, rawCount, sent, res, kept, ended, env, db>>

\* a login that stores no session
LoginStoredNothing(refreshToken) == NullToken

\* the value login writes into user.refreshToken
LoginStored(refreshToken) == refreshToken

\* user.refreshToken = refreshToken; await user.save(); res.cookie(...); 200
LoginSave(p) ==
    /\ req[p].pc = "login_save"
    /\ users' = [users EXCEPT ![req[p].email].refreshToken = LoginStored(req[p].rt)]
    /\ Respond(p, WithUser(Ok(200, "Welcome back, <name>! You have successfully logged in.",
                              req[p].rt, req[p].at)))
    /\ UNCHANGED <<now, rawCount, sent, env, db>>

\* history of a LoginSave step
TrackLoginSave(p) ==
    /\ IF kept.token.sub = req[p].email
       THEN kept' = [kept EXCEPT !.displaced = @ \/ kept.from = "login"]
       ELSE Keep(req[p].rt, "login")
    /\ ended' = IF ended.token.sub = req[p].email THEN NothingEnded ELSE ended

----------------------------------------------------------------------------
(* refresh *)

\* what a client can put in the refreshToken cookie: nothing, a string that
\* is no token, or a refresh token some response handed out
CookieInputs ==
    {NoCookie, Garbage}
        \cup {users[e].refreshToken : e \in {x \in Emails : users[x].refreshToken # NullToken}}
        \cup ({kept.token, ended.token} \ {NullToken})

StartRefresh(p) ==
    \E cookie \in CookieInputs :
        /\ Arrive(p, [Idle EXCEPT !.op = "refresh", !.pc = "ref_find", !.cookie = cookie,
                                  !.replay = cookie = kept.token /\ kept.rotated,
                                  !.old = cookie = kept.token /\ kept.displaced,
                                  !.dead = IF cookie = ended.token THEN ended.by
                                           ELSE "no"])
        /\ UNCHANGED <<users, now, rawCount, sent, kept, ended, env, db>>

\* User.findById(decoded.sub)
FindById(id) == IF id \in Emails THEN users[id] ELSE NoUser

\* !user || user.refreshToken !== cookieToken
RefreshMismatch(user, cookieToken) ==
    ~user.exists \/ user.refreshToken # cookieToken

\* a refresh that takes whatever req.cookies holds to the verifier
MissingCookieUnchecked(cookieToken) == FALSE

\* !cookieToken
MissingCookie(cookieToken) == cookieToken = NoCookie

\* cookie check, await verifyRefreshToken, await User.findById, the compare
RefreshFind(p) ==
    /\ req[p].pc = "ref_find"
    /\ LET cookieToken == req[p].cookie
           verdict == verifyRefreshToken(cookieToken, now)
           user == FindById(cookieToken.sub)
           seen == [req EXCEPT ![p].t = now, ![p].doc = user.refreshToken,
                               ![p].email = cookieToken.sub]
       IN  IF MissingCookie(cookieToken)
           THEN Respond(p, errorHandler(Unauthorized("Missing refresh token")))
           ELSE IF verdict # "ok"
           THEN /\ req' = [req EXCEPT ![p].pc = "done", ![p].t = now]
                /\ res' = [res EXCEPT ![p] = errorHandler(OtherError(verdict))]
           ELSE IF RefreshMismatch(user, cookieToken)
           THEN IF user.exists
                THEN /\ req' = [seen EXCEPT ![p].pc = "ref_clear"]
                     /\ UNCHANGED res
                ELSE /\ req' = [seen EXCEPT ![p].pc = "done"]
                     /\ res' = [res EXCEPT ![p] = errorHandler(
                                   Forbidden("Invalid or expired refresh token"))]
           ELSE /\ req' = [seen EXCEPT ![p].pc = "ref_sign"]
                /\ UNCHANGED res
    /\ UNCHANGED <<users, now, rawCount, sent, kept, ended, env, db>>

\* a mismatch that leaves user.refreshToken as it is
MismatchStoredKept(stored) == stored

\* the value a mismatch writes into user.refreshToken
MismatchStored(stored) == NullToken

\* user.refreshToken = null; await user.save(); throw Forbidden
RefreshClear(p) ==
    /\ req[p].pc = "ref_clear"
    /\ users' = [users EXCEPT ![req[p].email].refreshToken =
                                   MismatchStored(users[req[p].email].refreshToken)]
    /\ Respond(p, errorHandler(Forbidden("Invalid or expired refresh token")))
    /\ UNCHANGED <<now, rawCount, sent, env, db>>

\* history of a RefreshClear step
TrackRefreshClear(p) ==
    /\ IF users[req[p].email].refreshToken # NullToken
       THEN Mark(users[req[p].email].refreshToken, "mismatch")
       ELSE ended' = ended
    /\ kept' = kept

\* await signAccessToken(payload); await signRefreshToken(payload)
RefreshSign(p) ==
    /\ req[p].pc = "ref_sign"
    /\ req' = [req EXCEPT ![p].pc = "ref_save",
                          ![p].at = signAccessToken(Payload(req[p].email), now),
                          ![p].rt = signRefreshToken(Payload(req[p].email), now)]
    /\ UNCHANGED <<users, now, rawCount, sent, res, kept, ended, env, db>>

\* a refresh that stores the token it was called with again
RefreshStoredPresented(newRefreshToken, cookieToken) == cookieToken

\* the value refresh writes into user.refreshToken
RefreshStored(newRefreshToken, cookieToken) == newRefreshToken

\* user.refreshToken = newRefreshToken; await user.save(); res.cookie(...); 200
RefreshSave(p) ==
    /\ req[p].pc = "ref_save"
    /\ users' = [users EXCEPT ![req[p].email].refreshToken =
                                   RefreshStored(req[p].rt, req[p].cookie)]
    /\ Respond(p, Ok(200, "Access token refreshed successfully", req[p].rt, req[p].at))
    /\ UNCHANGED <<now, rawCount, sent, env, db>>

\* history of a RefreshSave step
TrackRefreshSave(p) ==
    /\ IF req[p].cookie = kept.token
       THEN kept' = [kept EXCEPT !.rotated = TRUE]
       ELSE Keep(req[p].rt, "refresh")
    /\ ended' = ended

----------------------------------------------------------------------------
(* logout *)

StartLogout(p) ==
    \E cookie \in CookieInputs :
        /\ Arrive(p, [Idle EXCEPT !.op = "logout", !.pc = "logout_update", !.cookie = cookie])
        /\ UNCHANGED <<users, now, rawCount, sent, kept, ended, env, db>>

\* a logout that updates no record
LogoutUpdateNothing(store, cookieToken) == store

\* a logout that clears the session of the token's subject
LogoutUpdateBySubject(store, cookieToken) ==
    IF cookieToken.sub \in Emails /\ store[cookieToken.sub].exists
    THEN [store EXCEPT ![cookieToken.sub].refreshToken = NullToken]
    ELSE store

\* User.findOneAndUpdate({refreshToken: cookieToken}, {$set: {refreshToken: null}}):
\* one atomic update of the first record holding that value
LogoutUpdate(store, cookieToken) ==
    LET holders == {e \in Emails : store[e].exists /\ store[e].refreshToken = cookieToken}
    IN  IF cookieToken = NoCookie \/ holders = {}
        THEN store
        ELSE [store EXCEPT ![CHOOSE e \in holders : TRUE].refreshToken = NullToken]

\* the whole of logout: the update, clearCookie, 200
Logout(p) ==
    /\ req[p].pc = "logout_update"
    /\ users' = LogoutUpdate(users, req[p].cookie)
    /\ Respond(p, Ok(200, "Logged out successfully", ClearedCookie, NullToken))
    /\ UNCHANGED <<now, rawCount, sent, env, db>>

\* history of a Logout step
TrackLogout(p) ==
    /\ IF users' # users THEN Mark(req[p].cookie, "logout") ELSE ended' = ended
    /\ kept' = kept

----------------------------------------------------------------------------
(* protect *)

\* what a client can put behind "Bearer ": nothing, a string that is no
\* token, the access token that came with the refresh token it kept, or
\* that refresh token itself (signed with the other key)
BearerInputs ==
    {NoCookie, Garbage}
        \cup (IF kept.token = NullToken THEN {}
              ELSE {kept.token,
                    signAccessToken(Payload(kept.token.sub), kept.token.iat)})

StartProtected(p) ==
    \E bearer \in BearerInputs :
        /\ Arrive(p, [Idle EXCEPT !.op = "protected", !.pc = "protect", !.bearer = bearer])
        /\ UNCHANGED <<users, now, rawCount, sent, kept, ended, env, db>>

\* the error protect hands to next(error), OtherError("") when it has none:
\* no token; what verifyAccessToken threw, with JWTExpired and JWTInvalid
\* turned into Unauthorized; a payload without a string id
protect(bearer, t) ==
    LET verdict == verifyAccessToken(bearer, t)
    IN  IF bearer = NoCookie
        THEN Unauthorized("Access denied. No token provided.")
        ELSE IF verdict = "JWTExpired"
        THEN Unauthorized("Access token expired. Please refresh.")
        ELSE IF verdict = "JWTInvalid"
        THEN Unauthorized("Invalid access token.")
        ELSE IF verdict # "ok" THEN OtherError(verdict)
        ELSE IF payloadOf(bearer).id = ""
        THEN Unauthorized("Invalid access token payload.")
        ELSE OtherError("")

\* the whole of protect: next() with req.user attached, or next(error)
Protect(p) ==
    /\ req[p].pc = "protect"
    /\ LET err == protect(req[p].bearer, now)
       IN  IF err = OtherError("")
           THEN /\ req' = [req EXCEPT ![p].pc = "done", ![p].t = now, ![p].passed = TRUE,
                                      ![p].user = [id |-> payloadOf(req[p].bearer).id,
                                                   email |-> payloadOf(req[p].bearer).email]]
                /\ UNCHANGED res
           ELSE /\ req' = [req EXCEPT ![p].pc = "done", ![p].t = now]
                /\ res' = [res EXCEPT ![p] = errorHandler(err)]
    /\ UNCHANGED <<users, now, rawCount, sent, kept, ended, env, db>>

----------------------------------------------------------------------------
(* Specifications *)

\* the steps of the handlers; those that issue or clear a refresh token
\* come with their history
Step(p) ==
    \/ StartRegister(p) \/ RegisterFind(p) \/ RegisterCreate(p) \/ RegisterSend(p)
    \/ StartVerifyEmail(p) \/ VerifyFind(p) \/ VerifySave(p)
    \/ StartLogin(p) \/ LoginFind(p) \/ LoginSign(p)
    \/ LoginSave(p) /\ TrackLoginSave(p)
    \/ StartRefresh(p) \/ RefreshFind(p) \/ RefreshSign(p)
    \/ RefreshClear(p) /\ TrackRefreshClear(p)
    \/ RefreshSave(p) /\ TrackRefreshSave(p)
    \/ StartLogout(p)
    \/ Logout(p) /\ TrackLogout(p)
    \/ StartProtected(p) \/ Protect(p)

\* requests handled one at a time
Next == Tick \/ \E p \in SeqProcs : Step(p)

Spec == Init /\ [][Next]_vars

\* Overlapping requests on one session: ann has registered with "secret1",
\* verified her email and logged in, all in second 0, and the client kept a
\* copy of the login's refresh token; refresh and logout calls arrive in
\* both slots and interleave at their awaits
AnnSession ==
    [exists |-> TRUE, password |-> hashPassword("secret1"), isVerified |-> TRUE,
     verificationToken |-> NullHash, verificationTokenExpires |-> NullDate,
     refreshToken |-> signRefreshToken(Payload("ann@x.com"), 0)]

InitSessions ==
    /\ users = [e \in Emails |-> IF e = "ann@x.com" THEN AnnSession ELSE NoUser]
    /\ now = 0
    /\ rawCount = 1
    /\ sent = [e \in Emails |-> IF e = "ann@x.com" THEN 1 ELSE 0]
    /\ req = [p \in Procs |-> Idle]
    /\ res = [p \in Procs |-> NoResponse]
    /\ kept = [token |-> AnnSession.refreshToken, from |-> "login",
               rotated |-> FALSE, displaced |-> FALSE]
    /\ ended = NothingEnded
    /\ env = Up("a", "b")
    /\ db = NotConnected

\* the same steps; the history stays with the token of the login
SessionStep(p) ==
    \/ StartRefresh(p) \/ RefreshFind(p) \/ RefreshSign(p)
    \/ RefreshClear(p) /\ UNCHANGED <<kept, ended>>
    \/ RefreshSave(p) /\ UNCHANGED <<kept, ended>>
    \/ StartLogout(p)
    \/ Logout(p) /\ UNCHANGED <<kept, ended>>

NextSessions == Tick \/ \E p \in Procs : SessionStep(p)

SpecSessions == InitSessions /\ [][NextSessions]_vars

\* Overlapping requests on one account: login calls arrive between the
\* refresh and logout calls of the session and interleave with them
ConcurrentStep(p) ==
    \/ SessionStep(p)
    \/ StartLogin(p) \/ LoginFind(p) \/ LoginSign(p)
    \/ LoginSave(p) /\ UNCHANGED <<kept, ended>>

NextConcurrent == Tick \/ \E p \in Procs : ConcurrentStep(p)

SpecConcurrent == InitSessions /\ [][NextConcurrent]_vars

\* Startup: the process loads env.ts with some pair of secrets, and serves
\* register, verifyEmail and login once it is up
InitStartup ==
    /\ users = [e \in Emails |-> NoUser]
    /\ now = 0
    /\ rawCount = 0
    /\ sent = [e \in Emails |-> 0]
    /\ req = [p \in Procs |-> Idle]
    /\ res = [p \in Procs |-> NoResponse]
    /\ kept = NothingKept
    /\ ended = NothingEnded
    /\ \E access \in Secrets, refresh \in Secrets :
          env = [Up(access, refresh) EXCEPT !.stage = "loading"]
    /\ db = NotConnected

\* try { ENV = envSchema.parse(process.env) } catch { ... process.exit(1) }
LoadEnv ==
    /\ env.stage = "loading"
    /\ env' = [env EXCEPT !.stage = IF envSchema(env) THEN "up" ELSE "exit"]
    /\ UNCHANGED <<users, now, rawCount, sent, req, res, kept, ended, db>>

StartupStep(p) ==
    \/ StartRegister(p) \/ RegisterFind(p) \/ RegisterCreate(p) \/ RegisterSend(p)
    \/ StartVerifyEmail(p) \/ VerifyFind(p) \/ VerifySave(p)
    \/ StartLogin(p) \/ LoginFind(p) \/ LoginSign(p)
    \/ LoginSave(p) /\ TrackLoginSave(p)

NextStartup == LoadEnv \/ Tick \/ \E p \in SeqProcs : StartupStep(p)

SpecStartup == InitStartup /\ [][NextStartup]_vars

\* Overlapping register calls: register requests arrive in both slots and
\* interleave at their awaits
RegisterStep(p) ==
    StartRegister(p) \/ RegisterFind(p) \/ RegisterCreate(p) \/ RegisterSend(p)

NextRegisters == Tick \/ \E p \in Procs : RegisterStep(p)

SpecRegisters == Init /\ [][NextRegisters]_vars

\* Token kinds: the process loads env.ts with some pair of secrets while ann
\* holds the session of InitSessions; the client then presents the access
\* token of that login as its refreshToken cookie, and either token of the
\* login behind "Bearer "
InitKeys ==
    /\ users = [e \in Emails |-> IF e = "ann@x.com" THEN AnnSession ELSE NoUser]
    /\ now = 0
    /\ rawCount = 1
    /\ sent = [e \in Emails |-> IF e = "ann@x.com" THEN 1 ELSE 0]
    /\ req = [p \in Procs |-> Idle]
    /\ res = [p \in Procs |-> NoResponse]
    /\ kept = [token |-> AnnSession.refreshToken, from |-> "login",
               rotated |-> FALSE, displaced |-> FALSE]
    /\ ended = NothingEnded
    /\ \E access \in Secrets, refresh \in Secrets :
          env = [Up(access, refresh) EXCEPT !.stage = "loading"]
    /\ db = NotConnected

\* a refresh whose cookie is the access token that came with the kept
\* refresh token
StartRefreshWithAccessToken(p) ==
    /\ kept.token # NullToken
    /\ Arrive(p, [Idle EXCEPT !.op = "refresh", !.pc = "ref_find",
                              !.cookie = signAccessToken(Payload(kept.token.sub),
                                                         kept.token.iat)])
    /\ UNCHANGED <<users, now, rawCount, sent, kept, ended, env, db>>

\* the steps such a refresh can take (its cookie is never the stored token,
\* so it signs nothing), and protect
KeysStep(p) ==
    \/ StartRefreshWithAccessToken(p) \/ RefreshFind(p)
    \/ RefreshClear(p) /\ UNCHANGED <<kept, ended>>
    \/ StartProtected(p) \/ Protect(p)

NextKeys == LoadEnv \/ Tick \/ \E p \in SeqProcs : KeysStep(p)

SpecKeys == InitKeys /\ [][NextKeys]_vars

\* a connectDB that does not look at isConnected
AlreadyConnectedUnchecked(state) == FALSE

\* if (isConnected) return
AlreadyConnected(state) == state.isConnected

\* connectDB(): if (isConnected) return; otherwise connectWithRetry()
CallConnectDB(p) ==
    /\ db.exitCode = -1
    /\ db.call[p].pc \in {"idle", "returned"}
    /\ db' = [db EXCEPT !.call[p] =
                 IF AlreadyConnected(db)
                 THEN [NoCall EXCEPT !.pc = "returned", !.late = TRUE]
                 ELSE [NoCall EXCEPT !.pc = "connecting"]]
    /\ UNCHANGED <<users, now, rawCount, sent, req, res, kept, ended, env>>

\* a connectWithRetry that invokes itself with the retries it was given
RetryForever(retries) == retries

\* return connectWithRetry(retries - 1, delay)
Retry(retries) == retries - 1

\* await mongoose.connect(...): it resolves, and isConnected = true; or it
\* rejects, and with retries left the call goes to sleep, without any the
\* process exits with code 1
Connect(p) ==
    /\ db.exitCode = -1
    /\ db.call[p].pc = "connecting"
    /\ db.call[p].attempts < MaxAttempts
    /\ \E connected \in BOOLEAN :
          db' = IF connected
                THEN [db EXCEPT !.isConnected = TRUE,
                                !.call[p].attempts = @ + 1,
                                !.call[p].pc = "register"]
                ELSE IF db.call[p].retries > 0
                THEN [db EXCEPT !.call[p].attempts = @ + 1,
                                !.call[p].pc = "sleeping"]
                ELSE [db EXCEPT !.call[p].attempts = @ + 1,
                                !.call[p].pc = "exited",
                                !.exitCode = 1]
    /\ UNCHANGED <<users, now, rawCount, sent, req, res, kept, ended, env>>

\* await new Promise((res) => setTimeout(res, delay)), then the next
\* invocation of connectWithRetry
Sleep(p) ==
    /\ db.exitCode = -1
    /\ db.call[p].pc = "sleeping"
    /\ db' = [db EXCEPT !.call[p].slept = @ + DelaySeconds,
                        !.call[p].retries = Retry(@),
                        !.call[p].pc = "connecting"]
    /\ UNCHANGED <<users, now, rawCount, sent, req, res, kept, ended, env>>

\* after await connectWithRetry(): the three mongoose.connection.on(...) and
\* process.on("SIGINT", ...), then connectDB returns
RegisterHandlers(p) ==
    /\ db.exitCode = -1
    /\ db.call[p].pc = "register"
    /\ db' = [db EXCEPT !.listeners = @ + 3, !.sigint = @ + 1,
                        !.call[p].pc = "returned"]
    /\ UNCHANGED <<users, now, rawCount, sent, req, res, kept, ended, env>>

ConnectStep(p) == Connect(p) \/ Sleep(p) \/ RegisterHandlers(p)

NextDB == \E p \in Procs : CallConnectDB(p) \/ ConnectStep(p)

\* mongoose.connect settles (serverSelectionTimeoutMS, connectTimeoutMS) and
\* the timer of a sleeping call fires: a call that can step does
SpecDB == Init /\ [][NextDB]_vars /\ \A p \in Procs : WF_vars(ConnectStep(p))

\* The boundary: what the handlers and protect hand to next(error), each
\* error as the code constructs it or as a library throws it
ThrownErrors ==
    {BadRequest(m) : m \in {"Email already registered", "Verification token missing",
                            "Invalid or expired verification token",
                            "Invalid credentials"}}
        \cup {Unauthorized(m) : m \in {"Missing refresh token",
                                       "Access denied. No token provided.",
                                       "Access token expired. Please refresh.",
                                       "Invalid access token.",
                                       "Invalid access token payload."}}
        \cup {Forbidden(m) : m \in {"Please verify your email before logging in",
                                    "Invalid or expired refresh token"}}
        \cup {Internal("User creation failed")}
        \cup {OtherError(m) : m \in {"JWSInvalid", "JWSSignatureVerificationFailed",
                                     "JWTExpired", "E11000 duplicate key error",
                                     "fetch failed"}}
        \cup {ThrownObject("validation_error")}

\* next(error) reaches errorHandler, which answers the request in slot p
Raise(p) ==
    \E err \in ThrownErrors :
        /\ env.stage = "up"
        /\ Free(p)
        /\ req' = [req EXCEPT ![p] = [Idle EXCEPT !.op = "failing", !.pc = "done"]]
        /\ res' = [res EXCEPT ![p] = errorHandler(err)]
        /\ UNCHANGED <<users, now, rawCount, sent, kept, ended, env, db>>

NextErrors == \E p \in Procs : Raise(p)

SpecErrors == Init /\ [][NextErrors]_vars

----------------------------------------------------------------------------
(* Properties *)

\* the handler of op has answered the request in slot p
Done(p, op) == req[p].op = op /\ req[p].pc = "done" /\ ~req[p].rejected

\* the response carries no token at all
NoTokens(p) == res[p].accessToken = NullToken /\ res[p].cookie = NoCookie

\* the cookie of the request in slot p was a signed, unexpired refresh token
\* when the handler verified it
CookieVerified(p) == verifyRefreshToken(req[p].cookie, req[p].t) = "ok"

\* C1: once a refresh call presenting token T has been answered 200, every
\* later refresh call presenting T (here: while T is unexpired) is answered
\* 403 and returns no new access token.
C1_RotatedTokenForbidden ==
    \A p \in Procs :
        (Done(p, "refresh") /\ req[p].replay /\ CookieVerified(p))
            => (res[p].status = 403 /\ NoTokens(p))

C3_WitnessAfter ==
    \E p \in SeqProcs :
        Done(p, "refresh") /\ req[p].dead = "mismatch" /\ res[p].status = 403

\* C4: verifyEmail is idempotent: a second verifyEmail call with the raw
\* token of a call that was just answered 200, made before the token's
\* expiry, is answered 200 as well.
C4_VerifyEmailIdempotent ==
    \A p \in Procs :
        (Done(p, "verifyEmail") /\ req[p].replay /\ req[p].t < req[p].until)
            => res[p].status = 200

\* C5: after two successful logins of one user, a refresh call presenting
\* the refresh token of the first login (here: while it is unexpired) is
\* answered 403.
C5_FirstLoginTokenForbidden ==
    \A p \in Procs :
        (Done(p, "refresh") /\ req[p].old /\ CookieVerified(p))
            => (res[p].status = 403 /\ NoTokens(p))

\* the step in which the handler in slot p leaves position pc
Leaves(p, pc) == req[p].pc = pc /\ req'[p].pc # pc

\* C6: login never succeeds for an unverified account: whatever the
\* password, the call is answered 403 (verify your email first), carries no
\* token, and the step changes no user record.
C6_UnverifiedLoginForbidden ==
    [][\A p \in Procs :
         ( /\ Leaves(p, "login_find")
           /\ users[req[p].email].exists /\ ~users[req[p].email].isVerified )
            => /\ req'[p].pc = "done"
               /\ res'[p].status = 403
               /\ res'[p].message = "Please verify your email before logging in"
               /\ res'[p].accessToken = NullToken /\ res'[p].cookie = NoCookie
               /\ users' = users]_vars

\* C6 (witness): a login with the right password for an unverified account
\* was answered 403.
C6_Witness ==
    \E p \in SeqProcs :
        /\ Done(p, "login") /\ res[p].status = 403
        /\ users[req[p].email].exists /\ ~users[req[p].email].isVerified
        /\ comparePasswords(req[p].password, users[req[p].email].password)

\* a login call for a registered account with a wrong password
WrongPassword(p) ==
    /\ Done(p, "login") /\ users[req[p].email].exists
    /\ ~comparePasswords(req[p].password, users[req[p].email].password)

\* a login call for an email that has no account
UnknownEmail(p) == Done(p, "login") /\ ~users[req[p].email].exists

InvalidCredentials(p) ==
    res[p].status = 400 /\ res[p].message = "Invalid credentials" /\ ~res[p].success

C8_RefreshAfterLogoutFails ==
    \A p \in Procs :
        (Done(p, "refresh") /\ req[p].dead = "logout")
            => (res[p].status \in {401, 403} /\ NoTokens(p))

\* C9: logout always answers 200 and clears the cookie, whether the cookie
\* is absent, stale or current; after it no user holds the presented token,
\* so the same call again is answered the same and changes nothing.
C9_LogoutIdempotent ==
    \A p \in Procs :
        Done(p, "logout")
            => /\ res[p].status = 200 /\ res[p].success
               /\ res[p].cookie = ClearedCookie
               /\ \A e \in Emails :
                     users[e].exists /\ users[e].refreshToken # NullToken
                        => users[e].refreshToken # req[p].cookie
               /\ LogoutUpdate(users, req[p].cookie) = users

\* C9 (witness): the logout of a session that was current: its token is the
\* one this logout ended.
C9_Witness ==
    \E p \in SeqProcs :
        /\ Done(p, "logout") /\ res[p].status = 200
        /\ ended = [token |-> req[p].cookie, by |-> "logout"]

InitSessionsReached ==
    /\ users["ann@x.com"] = AnnSession
    /\ users["bob@x.com"] = NoUser
    /\ now = 0 /\ rawCount = 1 /\ sent["ann@x.com"] = 1
    /\ kept = [token |-> AnnSession.refreshToken, from |-> "login",
               rotated |-> FALSE, displaced |-> FALSE]
    /\ ended = NothingEnded

\* C2: of two overlapping refresh calls that present the same stored refresh
\* token, never both are answered 200 (here: each with a new token that
\* differs from the one presented).
C2_OneRefreshWins ==
    \A p, q \in Procs :
        ( /\ p # q /\ Done(p, "refresh") /\ Done(q, "refresh")
          /\ req[p].overlap /\ req[q].overlap
          /\ req[p].cookie = req[q].cookie
          /\ res[p].cookie # req[p].cookie /\ res[q].cookie # req[q].cookie )
            => ~(res[p].status = 200 /\ res[q].status = 200)

\* C11: a failure of the verification-email dispatch does not fail register:
\* whenever the call has created the user record, it is answered 201.
C11_RegisterSurvivesMailFailure ==
    \A p \in Procs :
        (Done(p, "register") /\ req[p].raw # 0) => res[p].status = 201

\* C12: a refresh whose cookie has an invalid signature or has expired is
\* answered 401, issues no tokens and leaves every stored refreshToken
\* unchanged.
C12_BadRefreshCookieUnauthorized ==
    [][\A p \in Procs :
         ( /\ Leaves(p, "ref_find")
           /\ verifyRefreshToken(req[p].cookie, now)
                 \in {"JWSSignatureVerificationFailed", "JWTExpired"} )
            => /\ req'[p].pc = "done"
               /\ res'[p].status = 401
               /\ res'[p].accessToken = NullToken /\ res'[p].cookie = NoCookie
               /\ users' = users]_vars

\* C13: on a protected route a request with an absent, expired, malformed
\* or wrongly signed access token is answered 401 and never reaches the
\* controller, and the expired case carries a message of its own.
C13_BadAccessTokenUnauthorized ==
    \A p \in Procs :
        (Done(p, "protected") /\ verifyAccessToken(req[p].bearer, req[p].t) # "ok")
            => /\ ~req[p].passed
               /\ res[p].status = 401
               /\ (res[p].message = "Access token expired. Please refresh.")
                     <=> (verifyAccessToken(req[p].bearer, req[p].t) = "JWTExpired")

\* C14: register with an email that already has an account is answered 400
\* (email already registered), creates no record and leaves every record,
\* the existing one included, as it was.
C14_DuplicateEmailRejected ==
    [][\A p \in Procs :
         (Leaves(p, "reg_find") /\ users[req[p].email].exists)
            => /\ req'[p].pc = "done"
               /\ res'[p].status = 400
               /\ res'[p].message = "Email already registered"
               /\ ~res'[p].success
               /\ users' = users]_vars

\* C14 (witness): a register for the email of an account that is verified
\* and has a session was answered 400.
C14_Witness ==
    \E p \in SeqProcs :
        /\ Done(p, "register") /\ res[p].status = 400
        /\ users[req[p].email].isVerified
        /\ users[req[p].email].refreshToken # NullToken

\* some record stores the hash of raw with an expiry strictly after second t
StoresUnexpired(raw, t) ==
    \E e \in Emails :
        /\ users[e].exists
        /\ users[e].verificationToken = hashToken(raw)
        /\ users[e].verificationTokenExpires > t

\* C15: verifyEmail succeeds only when some record stores hash(rawToken)
\* with an expiry strictly in the future; a token that matches no record, or
\* a record whose expiry has passed, is answered 400 (invalid or expired
\* verification token) and no record changes.
C15_VerifyOnlyUnexpiredHash ==
    [][\A p \in Procs :
         Leaves(p, "ver_find")
            => /\ (req'[p].pc = "ver_save" \/ res'[p].status = 200)
                     => StoresUnexpired(req[p].raw, now)
               /\ (req[p].raw # 0 /\ ~StoresUnexpired(req[p].raw, now))
                     => /\ req'[p].pc = "done"
                        /\ res'[p].status = 400
                        /\ res'[p].message = "Invalid or expired verification token"
                        /\ users' = users]_vars

\* C15 (witness): verifyEmail was given the raw token of a pending account
\* after its expiry and answered 400; the account is still pending.
C15_Witness ==
    \E p \in SeqProcs : \E e \in Emails :
        /\ Done(p, "verifyEmail") /\ res[p].status = 400
        /\ req[p].raw # 0 /\ req[p].raw = sent[e]
        /\ users[e].verificationToken = hashToken(req[p].raw)
        /\ users[e].verificationTokenExpires <= req[p].t
        /\ ~users[e].isVerified

\* C16: only the hash of a verification token is persisted. Whenever a
\* stored verification token changes, it becomes null or the hash of the raw
\* token the same register call puts into the verification URL, never that
\* raw token; while an account is pending, what it stores is the hash of the
\* raw token mailed to it; and verifyEmail presented with a stored (hashed)
\* value is answered 400 and verifies nothing.
C16_OnlyHashPersisted ==
    /\ [](\A e \in Emails :
            (users[e].verificationToken # NullHash /\ sent[e] # 0)
               => /\ users[e].verificationToken = hashToken(sent[e])
                  /\ users[e].verificationToken # sent[e])
    /\ [][\A e \in Emails :
            users'[e].verificationToken # users[e].verificationToken
               => \/ users'[e].verificationToken = NullHash
                  \/ \E p \in Procs :
                        /\ Leaves(p, "reg_create") /\ req'[p].pc = "reg_send"
                        /\ req[p].email = e
                        /\ users'[e].verificationToken = hashToken(req'[p].raw)
                        /\ users'[e].verificationToken # req'[p].raw]_vars
    /\ [][\A p \in Procs :
            ( /\ Leaves(p, "ver_find") /\ req[p].raw # NullHash
              /\ \E e \in Emails : users[e].verificationToken = req[p].raw )
               => /\ req'[p].pc = "done"
                  /\ res'[p].status = 400
                  /\ users' = users]_vars

\* C16 (witness): verifyEmail was presented with the hash a pending account
\* stores, whose raw token was mailed, and answered 400.
C16_Witness ==
    \E p \in SeqProcs : \E e \in Emails :
        /\ Done(p, "verifyEmail") /\ res[p].status = 400
        /\ req[p].raw # NullHash /\ req[p].raw = users[e].verificationToken
        /\ sent[e] # 0 /\ ~users[e].isVerified

\* C17: for every pair generateSecureToken has returned, hashToken of its
\* raw token is its hashed token (hashToken, a function of its input, gives
\* equal outputs for equal inputs).
C17_HashRoundTrip ==
    \A n \in 0 .. (rawCount - 1) :
        hashToken(generateSecureToken(n).rawToken) = generateSecureToken(n).hashedToken

\* C17 (witness): register has drawn a pair and stored its hashed token, and
\* verifyEmail has hashed the raw token of that pair and found the record.
C17_Witness ==
    \E p \in SeqProcs :
        /\ req[p].op = "verifyEmail" /\ req[p].pc = "ver_save"
        /\ rawCount > 0
        /\ \E n \in 0 .. (rawCount - 1) :
              /\ req[p].raw = generateSecureToken(n).rawToken
              /\ users[req[p].email].verificationToken = generateSecureToken(n).hashedToken

\* the claims a verification at second t returns for token, as the two
\* verifiers of jwt.ts give them
Verified(verdict, token, payload) ==
    /\ verdict = "ok"
    /\ payloadOf(token).sub = payload.id
    /\ payloadOf(token).id = payload.id
    /\ payloadOf(token).email = payload.email

\* C18: for every payload and the second t0 a token is signed in,
\* verifyAccessToken of signAccessToken and verifyRefreshToken of
\* signRefreshToken return the embedded claims, with sub = id, at every
\* second before the token's expiry and throw JWTExpired at every second
\* after it.
C18_SignVerifyRoundTrip ==
    \A e \in Emails :
        LET t0 == now
            at == signAccessToken(Payload(e), t0)
            rt == signRefreshToken(Payload(e), t0)
        IN  /\ \A t \in t0 .. (t0 + AccessTTL + 1) :
                  /\ t < at.exp => Verified(verifyAccessToken(at, t), at, Payload(e))
                  /\ t > at.exp => verifyAccessToken(at, t) = "JWTExpired"
            /\ \A t \in t0 .. (t0 + RefreshTTL + 1) :
                  /\ t < rt.exp => Verified(verifyRefreshToken(rt, t), rt, Payload(e))
                  /\ t > rt.exp => verifyRefreshToken(rt, t) = "JWTExpired"

\* C18 (witness): protect has verified an access token a login signed,
\* before its expiry, and attached the claims of that login's user.
C18_Witness ==
    \E p \in SeqProcs :
        /\ Done(p, "protected") /\ req[p].passed
        /\ req[p].t < req[p].bearer.exp
        /\ users[req[p].user.id].exists
        /\ req[p].bearer = signAccessToken(req[p].user, req[p].bearer.iat)

\* C19: the configuration is accepted only if the two secrets differ and
\* each is at least 32 long; with a shorter secret or with equal secrets the
\* process exits, and no request is served (no token signed) unless the
\* configuration was accepted.
C19_SecretsCheckedAtStartup ==
    /\ env.stage = "up"
          => /\ env.ACCESS_TOKEN_SECRET # env.REFRESH_TOKEN_SECRET
             /\ SecretLength(env.ACCESS_TOKEN_SECRET) >= 32
             /\ SecretLength(env.REFRESH_TOKEN_SECRET) >= 32
    /\ env.stage # "up" => \A p \in Procs : req[p] = Idle /\ res[p] = NoResponse

\* C20: every failure response of the auth endpoints, the rejection of a
\* malformed body or query included, has the body {success: false, message}.
C20_UniformFailureBody ==
    \A p \in Procs :
        ( /\ req[p].pc = "done"
          /\ req[p].op \in {"register", "verifyEmail", "login", "refresh", "logout"}
          /\ res[p].status >= 400 )
            => (res[p].body = {"success", "message"} /\ ~res[p].success)

\* the step in which login or refresh in slot p stores and hands out the
\* refresh token it signed
Issues(p) == Leaves(p, "login_save") \/ Leaves(p, "ref_save")

\* C21: token freshness. The refresh token a successful login or refresh
\* issues differs from every refresh token issued earlier for the same user
\* (here: the one stored for the user, the one the call presented, and the
\* one a client kept), also when no second has passed since that issuance.
C21_IssuedTokensFresh ==
    [][\A p \in Procs :
         Issues(p)
            => /\ req[p].rt # users[req[p].email].refreshToken
               /\ req[p].rt # req[p].cookie
               /\ req[p].rt # kept.token]_vars

\* Unregistered, PendingVerification or Verified
AccountState(user) ==
    IF ~user.exists THEN "Unregistered"
    ELSE IF user.isVerified THEN "Verified" ELSE "PendingVerification"

\* C22: account state moves only forward. Whenever the state of an account
\* changes, either it was Unregistered and the User.create of a register
\* call for that email put it in PendingVerification, or it was
\* PendingVerification and the save of a verifyEmail call, answered 200,
\* put it in Verified; so a Verified account stays Verified and a record,
\* once created, stays.
C22_AccountStateForward ==
    [][\A e \in Emails :
         AccountState(users'[e]) # AccountState(users[e])
            => \/ /\ AccountState(users[e]) = "Unregistered"
                  /\ AccountState(users'[e]) = "PendingVerification"
                  /\ \E p \in Procs : /\ Leaves(p, "reg_create")
                                      /\ req[p].op = "register" /\ req[p].email = e
               \/ /\ AccountState(users[e]) = "PendingVerification"
                  /\ AccountState(users'[e]) = "Verified"
                  /\ \E p \in Procs : /\ Leaves(p, "ver_save")
                                      /\ req[p].op = "verifyEmail" /\ req[p].email = e
                                      /\ res'[p].status = 200]_vars

\* C22 (witness): an account was verified, logged in, had its kept token
\* rotated by a refresh and its session ended by a logout, and is Verified.
C22_Witness ==
    \E p \in SeqProcs : \E e \in Emails :
        /\ AccountState(users[e]) = "Verified"
        /\ Done(p, "logout") /\ req[p].cookie.sub = e
        /\ ended = [token |-> req[p].cookie, by |-> "logout"]
        /\ kept.token.sub = e /\ kept.rotated

\* C23: a successful register leaves exactly one new record, with
\* isVerified false, the hash of the mailed token, an expiry one hour
\* (VerifyTTL) after the second the call creates it in and no refreshToken;
\* its 201 response carries only id, name, email and role of the user and
\* no token, and the record is then as it was created.
C23_RegisterCreatesPendingRecord ==
    [][\A p \in Procs :
         /\ (Leaves(p, "reg_create") /\ req'[p].pc = "reg_send")
               => /\ ~users[req[p].email].exists
                  /\ users' = [users EXCEPT ![req[p].email] =
                                  [exists |-> TRUE,
                                   password |-> hashPassword(req[p].password),
                                   isVerified |-> FALSE,
                                   verificationToken |-> hashToken(req'[p].raw),
                                   verificationTokenExpires |-> now + VerifyTTL,
                                   refreshToken |-> NullToken]]
         /\ (Leaves(p, "reg_send") /\ res'[p].status = 201)
               => /\ users' = users
                  /\ ~users[req[p].email].isVerified
                  /\ users[req[p].email].verificationToken = hashToken(req[p].raw)
                  /\ users[req[p].email].refreshToken = NullToken
                  /\ res'[p].body = {"success", "message", "user"}
                  /\ res'[p].user = {"id", "name", "email", "role"}
                  /\ res'[p].accessToken = NullToken /\ res'[p].cookie = NoCookie]_vars

\* C23 (witness): a register was answered 201 while another account
\* existed already, and its own record is pending with the mailed token.
C23_Witness ==
    \E p \in SeqProcs : \E other \in Emails \ {req[p].email} :
        /\ Done(p, "register") /\ res[p].status = 201
        /\ users[other].exists
        /\ sent[req[p].email] = req[p].raw
        /\ users[req[p].email].verificationToken = hashToken(req[p].raw)

\* C24: a successful verifyEmail sets isVerified to true and clears the
\* stored verification-token hash and its expiry; the password hash and the
\* refreshToken of that user and every other user record stay as they were.
C24_VerifyEmailFrame ==
    [][\A p \in Procs :
         Leaves(p, "ver_save")
            => /\ res'[p].status = 200
               /\ users'[req[p].email].isVerified
               /\ users'[req[p].email].verificationToken = NullHash
               /\ users'[req[p].email].verificationTokenExpires = NullDate
               /\ users'[req[p].email].password = users[req[p].email].password
               /\ users'[req[p].email].refreshToken = users[req[p].email].refreshToken
               /\ users'[req[p].email].exists = users[req[p].email].exists
               /\ \A e \in Emails \ {req[p].email} : users'[e] = users[e]]_vars

\* C24 (witness): a verifyEmail was answered 200 for an account that held
\* the hash of the presented token until then, while another account was
\* pending with a token of its own, which it still holds.
C24_Witness ==
    \E p \in SeqProcs : \E other \in Emails \ {req[p].email} :
        /\ Done(p, "verifyEmail") /\ res[p].status = 200
        /\ req[p].raw = sent[req[p].email]
        /\ users[req[p].email].isVerified
        /\ users[req[p].email].password = hashPassword("secret1")
        /\ AccountState(users[other]) = "PendingVerification"
        /\ users[other].verificationToken = hashToken(sent[other])

\* the request in slot p is a login or refresh that was answered 200
Issued(p) == (Done(p, "login") \/ Done(p, "refresh")) /\ res[p].status = 200

\* C25: with requests handled one at a time, the refresh token a successful
\* login or refresh puts in the response cookie is the one it stores for
\* the user; when the next call is a refresh presenting that cookie, the
\* cookie is still the stored token, and a refresh presenting the stored
\* token (here: before the token's expiry) passes the compare, signs a new
\* pair and is answered 200.
C25_IssuedTokenAccepted ==
    [][\A p \in SeqProcs :
         /\ Issues(p)
               => /\ res'[p].status = 200
                  /\ res'[p].cookie = req[p].rt
                  /\ users'[req[p].email].refreshToken = res'[p].cookie
         /\ ( /\ Issued(p)
              /\ req'[p].op = "refresh" /\ req'[p].pc = "ref_find"
              /\ req'[p].cookie = res[p].cookie )
               => FindById(req'[p].cookie.sub).refreshToken = req'[p].cookie
         /\ ( /\ Leaves(p, "ref_find")
              /\ req[p].cookie.kind = "refresh" /\ now < req[p].cookie.exp
              /\ FindById(req[p].cookie.sub).refreshToken = req[p].cookie )
               => req'[p].pc = "ref_sign"
         /\ Leaves(p, "ref_sign") => req'[p].pc = "ref_save"
         /\ Leaves(p, "ref_save") => res'[p].accessToken # NullToken]_vars

\* C25 (witness): a refresh presented the token an earlier refresh had
\* issued, in a later second, and was answered 200 with a new token.
C25_Witness ==
    \E p \in SeqProcs :
        /\ Done(p, "refresh") /\ res[p].status = 200
        /\ kept.token = req[p].cookie /\ kept.from = "refresh"
        /\ req[p].cookie.iat < res[p].cookie.iat
        /\ users[req[p].email].refreshToken = res[p].cookie

\* C26: a refresh without a refreshToken cookie is answered 401 (missing
\* refresh token) by the first step of the handler: it has verified no
\* token and loaded no document (it has read neither the clock nor the
\* store), it issues no token, and no user record changes.
C26_MissingCookieUnauthorized ==
    [][\A p \in Procs :
         (Leaves(p, "ref_find") /\ req[p].cookie = NoCookie)
            => /\ req'[p] = [req[p] EXCEPT !.pc = "done"]
               /\ req'[p].t = Idle.t /\ req'[p].doc = Idle.doc
               /\ res'[p].status = 401
               /\ res'[p].message = "Missing refresh token"
               /\ ~res'[p].success
               /\ res'[p].accessToken = NullToken /\ res'[p].cookie = NoCookie
               /\ users' = users]_vars

\* C26 (witness): a refresh without a cookie was answered 401 in a second
\* after the first, while a user held a session.
C26_Witness ==
    \E p \in SeqProcs :
        /\ Done(p, "refresh") /\ req[p].cookie = NoCookie /\ res[p].status = 401
        /\ now > 0
        /\ \E e \in Emails : users[e].refreshToken # NullToken

\* the register call in slot p has created a record
Created(p) == req[p].raw # 0

\* C27: of two overlapping register calls with the same email exactly one
\* creates a user record, and the other one is answered 400 (email already
\* registered).
C27_OneRegisterWins ==
    \A p, q \in Procs :
        ( /\ p # q /\ Done(p, "register") /\ Done(q, "register")
          /\ req[p].overlap /\ req[q].overlap
          /\ req[p].email = req[q].email
          /\ Created(p) )
            => /\ ~Created(q)
               /\ res[q].status = 400
               /\ res[q].message = "Email already registered"

\* the input the handler in slot p was called with is well-formed: an email
\* address and a password of the length its route asks for, or a
\* verification token that is not empty
InputValid(p) ==
    /\ req[p].op = "register" => IsEmail(req[p].email) /\ PasswordLength(req[p].password) >= 6
    /\ req[p].op = "login" => IsEmail(req[p].email) /\ PasswordLength(req[p].password) >= 1
    /\ req[p].op = "verifyEmail" => req[p].raw # 0

\* C28: malformed input is rejected before any persistence access. On
\* register, login and verify-email every request the controller is called
\* with is well-formed; a request that fails the schema is answered
\* 400 by the validation middleware at once, no step of a handler is ever
\* taken for it, and the step that rejects it changes no user record, draws
\* no verification token and sends no email.
C28_RejectedBeforePersistence ==
    /\ [](\A p \in Procs :
            /\ ~req[p].rejected => InputValid(p)
            /\ req[p].rejected
                  => /\ req[p].pc = "done"
                     /\ req[p].op \in {"register", "login", "verifyEmail"}
                     /\ res[p].status = 400 /\ res[p].logged = FALSE)
    /\ [][\A p \in Procs :
            (req'[p].rejected /\ req'[p] # req[p])
               => /\ users' = users
                  /\ sent' = sent
                  /\ rawCount' = rawCount]_vars

\* C28 (witness): a login with a malformed body was rejected while the
\* account it could have named was verified and had a session.
C28_Witness ==
    \E p \in SeqProcs :
        /\ req[p].rejected /\ req[p].op = "login"
        /\ res[p].message = "Invalid request body"
        /\ \E e \in Emails : users[e].isVerified /\ users[e].refreshToken # NullToken

\* C29: the boundary error handler logs a failure exactly when it answers
\* it with 500: every failure answered 500 is logged, and no failure
\* answered 400, 401, 403 or 404 is.
C29_LoggedIffInternal ==
    \A p \in Procs :
        (req[p].pc = "done" /\ res[p].status >= 400)
            => (res[p].logged <=> res[p].status = 500)

\* C30: key separation. In a process that is up, no token signAccessToken
\* makes is accepted by verifyRefreshToken and no token signRefreshToken
\* makes is accepted by verifyAccessToken; a refresh whose cookie is an
\* access token never gets to load the user and compare, is never answered
\* 200, and leaves the stored refreshToken as it was.
C30_KeySeparation ==
    /\ env.stage = "up"
          => \A e \in Emails : \A t0 \in 0 .. now :
                /\ verifyRefreshToken(signAccessToken(Payload(e), t0), now) # "ok"
                /\ verifyAccessToken(signRefreshToken(Payload(e), t0), now) # "ok"
    /\ \A p \in Procs :
          (req[p].op = "refresh" /\ req[p].cookie.kind = "access")
             => /\ req[p].pc \in {"ref_find", "done"}
                /\ req[p].email = Idle.email
                /\ res[p].status # 200
                /\ users["ann@x.com"].refreshToken = AnnSession.refreshToken

\* the connectDB call in slot p is under way
Connecting(p) == db.call[p].pc \in {"connecting", "sleeping", "register"}

\* C31: connectDB terminates. A call makes at most 6 connection attempts,
\* the k-th of them after k - 1 delays of 3 seconds; it returns only with
\* isConnected set (and, unless it found it set, after an attempt of its own
\* succeeded); when its sixth attempt fails it does not return, the process
\* exits with code 1; and every call under way ends: it returns or the
\* process exits.
C31_ConnectDBTerminates ==
    /\ [](\A p \in Procs :
            /\ db.call[p].attempts <= 6
            /\ db.call[p].pc \in {"connecting", "register", "returned", "exited"}
                  => db.call[p].slept = 3 * (5 - db.call[p].retries)
            /\ db.call[p].pc = "connecting"
                  => db.call[p].attempts = 5 - db.call[p].retries
            /\ db.call[p].pc = "returned"
                  => /\ db.isConnected
                     /\ db.exitCode = -1 \/ \E q \in Procs : db.call[q].pc = "exited"
                     /\ ~db.call[p].late => db.call[p].attempts >= 1
            /\ db.call[p].pc = "exited"
                  => db.exitCode = 1 /\ db.call[p].attempts = 6)
    /\ [][\A p \in Procs :
            (db.call[p].pc = "connecting" /\ db'.call[p].pc \in {"exited", "returned"})
               => db'.call[p].pc = "exited" /\ db.call[p].attempts = 5]_vars
    /\ \A p \in Procs :
          Connecting(p) ~> (db.call[p].pc = "returned" \/ db.exitCode = 1)

\* C31 (witness): a call has returned after five failed attempts and a
\* sixth that succeeded, having slept 15 seconds.
C31_Witness ==
    \E p \in Procs :
        /\ db.call[p].pc = "returned" /\ db.call[p].attempts = 6
        /\ db.call[p].slept = 15 /\ db.isConnected /\ db.exitCode = -1

\* C39: connectDB is idempotent once connected. A call made when an earlier
\* call has succeeded (isConnected is set) returns at once: it makes no
\* connection attempt, sleeps for none, and registers no connection
\* listener and no SIGINT handler.
C39_ConnectDBIdempotent ==
    [][\A p \in Procs :
         ( /\ db.isConnected
           /\ db.call[p].pc \in {"idle", "returned"}
           /\ db'.call[p] # db.call[p] )
            => /\ db'.call[p].pc = "returned"
               /\ db'.call[p].attempts = 0 /\ db'.call[p].slept = 0
               /\ db'.listeners = db.listeners /\ db'.sigint = db.sigint
               /\ db'.isConnected]_vars

\* C39 (witness): a call that found isConnected set has returned without an
\* attempt, after the call in the other slot had connected at its third
\* attempt and registered its handlers.
C39_Witness ==
    \E p \in Procs : \E q \in Procs \ {p} :
        /\ db.call[p].pc = "returned" /\ db.call[p].late /\ db.call[p].attempts = 0
        /\ db.call[q].pc = "returned" /\ db.call[q].attempts = 3
        /\ db.sigint = 1 /\ db.listeners = 3

\* C32: a request passes protect to its controller only if it carries a
\* Bearer token that is signed with the access secret, is unexpired at the
\* second protect verifies it and has an id claim; req.user is then exactly
\* the claims embedded in that token. A request that does not pass is
\* answered by the error handler and has no req.user.
C32_ProtectPassesValidOnly ==
    \A p \in Procs :
        (req[p].op = "protected" /\ req[p].pc = "done")
           => /\ req[p].passed
                    => /\ req[p].bearer.kind \in {"access", "refresh"}
                       /\ SecretOf(req[p].bearer) = env.ACCESS_TOKEN_SECRET
                       /\ req[p].t < req[p].bearer.exp
                       /\ req[p].bearer.claims.id # ""
                       /\ req[p].user = req[p].bearer.claims
                       /\ res[p] = NoResponse
              /\ ~req[p].passed
                    => /\ req[p].user = Idle.user
                       /\ res[p].status >= 400

\* C32 (witness): a request passed protect with the access token of a
\* login whose session has since been ended by a logout.
C32_Witness ==
    \E p \in SeqProcs :
        /\ Done(p, "protected") /\ req[p].passed
        /\ req[p].bearer.kind = "access"
        /\ req[p].user.id = kept.token.sub
        /\ ended = [token |-> kept.token, by |-> "logout"]
        /\ users[req[p].user.id].refreshToken = NullToken

\* C33: in every state, a user whose stored refreshToken is not null has a
\* record that is verified.
C33_SessionOnlyIfVerified ==
    \A e \in Emails :
        users[e].refreshToken # NullToken => (users[e].exists /\ users[e].isVerified)

\* C33 (witness): one account holds a session while the other, pending,
\* has just been refused a login with its right password.
C33_Witness ==
    \E p \in SeqProcs : \E e \in Emails \ {req[p].email} :
        /\ Done(p, "login") /\ res[p].status = 403
        /\ req[p].password = "secret1"
        /\ users[req[p].email].refreshToken = NullToken
        /\ users[e].refreshToken # NullToken /\ users[e].isVerified

\* C34: in every state, a verified user stores neither a verification token
\* nor an expiry for one; and verifyEmail never answers through its
\* "already verified" branch.
C34_VerifiedHoldsNoToken ==
    /\ \A e \in Emails :
          users[e].isVerified
             => /\ users[e].verificationToken = NullHash
                /\ users[e].verificationTokenExpires = NullDate
    /\ \A p \in Procs :
          res[p].message # "Email already verified. You can log in."

\* C34 (witness): verifyEmail was called again with the raw token of an
\* account it had verified, before that token's expiry, and was refused.
C34_Witness ==
    \E p \in SeqProcs : \E e \in Emails :
        /\ Done(p, "verifyEmail") /\ req[p].replay /\ req[p].t < req[p].until
        /\ req[p].raw = sent[e] /\ users[e].isVerified
        /\ res[p].status = 400

\* C35: a failed login changes no user record. A login refused for an
\* unknown email, an unverified account or a wrong password is answered 400
\* or 403 without tokens by a step that leaves every user record, the
\* stored refreshToken of the targeted account included, as it was.
C35_FailedLoginFrame ==
    [][\A p \in Procs :
         ( /\ Leaves(p, "login_find")
           /\ \/ ~users[req[p].email].exists
              \/ ~users[req[p].email].isVerified
              \/ ~comparePasswords(req[p].password, users[req[p].email].password) )
            => /\ req'[p].pc = "done"
               /\ res'[p].status \in {400, 403}
               /\ res'[p].accessToken = NullToken /\ res'[p].cookie = NoCookie
               /\ users' = users]_vars

\* C35 (witness): a login with a wrong password was refused for an account
\* whose session, rotated by a refresh before, is still the stored one.
C35_Witness ==
    \E p \in SeqProcs :
        /\ WrongPassword(p) /\ res[p].status = 400
        /\ kept.token.sub = req[p].email /\ kept.from = "refresh"
        /\ users[req[p].email].refreshToken = kept.token

\* C36: register is all-or-nothing. A register call that is answered with an
\* error has created no user record, so the email it was called with is
\* not taken because of it.
C36_RegisterAllOrNothing ==
    \A p \in Procs :
        (Done(p, "register") /\ res[p].status >= 400) => ~Created(p)

\* the call in slot p is answered 200 by this step
Answers(p) == req[p].pc # "done" /\ req'[p].pc = "done" /\ res'[p].status = 200

\* C37: token provenance, under overlapping login, refresh and logout calls
\* of one user. Every step that puts a non-null value into the stored
\* refreshToken of user U is the step of a login or refresh call for U that
\* is answered 200 with that value as its cookie, and the value is a refresh
\* token signed for U in a second that has begun; and the token a refresh answered 200 returns is the
\* one stored for its user by that step.
C37_TokenProvenance ==
    [][/\ \A e \in Emails :
            ( /\ users'[e].refreshToken # users[e].refreshToken
              /\ users'[e].refreshToken # NullToken )
               => \E p \in Procs :
                     /\ req[p].op \in {"login", "refresh"} /\ req[p].email = e
                     /\ Answers(p)
                     /\ res'[p].cookie = users'[e].refreshToken
                     /\ \E t \in 0..now :
                           users'[e].refreshToken = signRefreshToken(Payload(e), t)
       /\ \A p \in Procs :
            (req[p].op = "refresh" /\ Answers(p))
               => res'[p].cookie = users'[req[p].email].refreshToken]_vars

\* C37 (witness): a login and a refresh of ann overlapped, both were
\* answered 200 with tokens of different seconds, and the stored token is
\* the one the refresh returned.
C37_Witness ==
    \E p, q \in Procs :
        /\ Done(p, "login") /\ Done(q, "refresh")
        /\ req[p].overlap /\ req[q].overlap
        /\ req[p].email = req[q].email
        /\ res[p].status = 200 /\ res[q].status = 200
        /\ res[p].cookie # res[q].cookie
        /\ users[req[q].email].refreshToken = res[q].cookie

\* C38: a logout that overlaps a refresh of the same session ends the
\* session. Once a refresh that presented the stored token and a logout
\* that presented the same token, one running during the other, have both
\* been answered, the stored refreshToken of the user is null.
C38_LogoutEndsSession ==
    \A p, q \in Procs :
        ( /\ Done(p, "refresh") /\ Done(q, "logout")
          /\ req[p].overlap /\ req[q].overlap
          /\ req[p].cookie = req[q].cookie
          /\ CookieVerified(p) /\ req[p].doc = req[p].cookie )
            => users[req[p].email].refreshToken = NullToken

====
